---- MODULE Spec2Model ----
(***************************************************************************)
(* Model of btc_price_monitor.py: the per-invocation decision engine       *)
(* check_price_change_and_alert() together with load_state/save_state.     *)
(*                                                                         *)
(* Units.  Prices and open interest are whole numbers.  Funding rates are  *)
(* in hundredths of a percent (0.1% = 10).  Times are whole seconds since  *)
(* the epoch; the 'HH:MM' label of the source is the minute-of-day index   *)
(* and the 'YYYY-MM-DD' label is the day index, both in UTC+8.  Percent    *)
(* magnitudes stored in records are kept in basis points, rounded down.    *)
(* A dedup key "rapid_HH:MM" is the pair <<"rapid", minute>>.              *)
(***************************************************************************)
EXTENDS Integers, Sequences, FiniteSets, TLC

\* ------------------------------------------------------------------------
\* Program constants
\* ------------------------------------------------------------------------
PRICE_CHANGE_THRESHOLD == 500
DAILY_MAX_CHANGE_THRESHOLD == 2000
OPEN_INTEREST_CHANGE_THRESHOLD == 10
FUNDING_RATE_HIGH_THRESHOLD == 10
FUNDING_RATE_LOW_THRESHOLD == 0 - 10
RAPID_CHANGE_TIME_WINDOW == 60
RAPID_CHANGE_THRESHOLD == 2
HISTORY_MARGIN == 300
BEIJING_OFFSET == 28800
SECONDS_PER_DAY == 86400
SECONDS_PER_MINUTE == 60

\* Python's None, a value outside every numeric domain of the model.
None == 0 - 1000000

\* ------------------------------------------------------------------------
\* Bounds of the model
\* ------------------------------------------------------------------------
MaxCycles == 3
StartTime == 57450

\* Prices, time advances between invocations and futures readings
\* <<open interest, funding rate>> the environment may produce.
Prices == {59000, 60000, 60550, 62000}
Advances == {20, 70, 400}
NoFutures == {<<None, None>>}
FewPrices == {60000, 62000}
FewAdvances == {20, 400}
Futures == {<<None, None>>, <<None, 10>>, <<1000, None>>, <<1000, 0>>, <<1150, 10>>}
FinePrices == {60000, 60300, 60500, 61300}
FineAdvances == {30, 35, 400}
RollFutures == {<<None, None>>, <<1150, 10>>}
RollAdvances == {70, 400}
RulePrices == {60000}
OverlapAdvances == {10, 20}
RuleFutures == {<<0, -10>>, <<1000, 0>>, <<1100, 9>>, <<1150, 10>>}

Kinds == {"rapid", "price", "oi", "fr"}

\* ------------------------------------------------------------------------
\* Helpers
\* ------------------------------------------------------------------------
Abs(x) == IF x < 0 THEN 0 - x ELSE x

\* strftime('%Y-%m-%d') of get_beijing_datetime(): the UTC+8 day index.
BeijingDate(t) == (t + BEIJING_OFFSET) \div SECONDS_PER_DAY

\* strftime('%H:%M') of get_beijing_datetime(): the UTC+8 minute of day.
BeijingTimeStr(t) == ((t + BEIJING_OFFSET) % SECONDS_PER_DAY) \div SECONDS_PER_MINUTE

\* (a - b) / b * 100, kept in basis points.
PercentChange(a, b) == ((a - b) * 10000) \div b

RECURSIVE SelectSeqBy(_, _, _)
\* [p for p in s if keep(p['timestamp'], bound)] with keep given by strict.
SelectSeqBy(s, bound, strict) ==
    IF s = << >> THEN << >>
    ELSE LET h == Head(s)
             rest == SelectSeqBy(Tail(s), bound, strict)
             keep == IF strict THEN h.timestamp > bound ELSE h.timestamp >= bound
         IN IF keep THEN <<h>> \o rest ELSE rest

\* [a.get('key') for a in liquidation_alerts]
AlertKeys(alerts) == {alerts[i].key : i \in 1..Len(alerts)}

\* ------------------------------------------------------------------------
\* Persisted state
\* ------------------------------------------------------------------------
DefaultState ==
    [last_price |-> None,
     last_check_date |-> None,
     today_high |-> None,
     today_low |-> None,
     today_high_time |-> None,
     today_low_time |-> None,
     last_alert_price |-> None,
     daily_max_change_events |-> << >>,
     last_open_interest |-> None,
     last_funding_rate |-> None,
     liquidation_alerts |-> << >>,
     price_history |-> << >>]

\* The state file: absent, unparsable, or a JSON object.
load_state(f) == IF f.kind = "json" THEN f.data ELSE DefaultState

save_state(f, st) == [kind |-> "json", data |-> st]

\* ------------------------------------------------------------------------
\* check_price_change_and_alert, step by step
\* ------------------------------------------------------------------------

\* Variant: every invocation is taken for the first of a day.
IsNewDay_Always(st, date) == TRUE

\* Day rollover (is_new_day) and the reset of the day's locals.
IsNewDay(st, date) == st.last_check_date # date

\* Variant: the reset also clears the last price and the last readings.
ResetForNewDay_ClearsLast(st) ==
    [st EXCEPT !.today_high = None,
               !.today_low = None,
               !.today_high_time = None,
               !.today_low_time = None,
               !.last_alert_price = None,
               !.daily_max_change_events = << >>,
               !.liquidation_alerts = << >>,
               !.price_history = << >>,
               !.last_price = None,
               !.last_open_interest = None,
               !.last_funding_rate = None]

\* Variant: the reset forgets the rolling price buffer.
ResetForNewDay_KeepHistory(st) ==
    [st EXCEPT !.today_high = None,
               !.today_low = None,
               !.today_high_time = None,
               !.today_low_time = None,
               !.last_alert_price = None,
               !.daily_max_change_events = << >>,
               !.liquidation_alerts = << >>]

ResetForNewDay(st) ==
    [st EXCEPT !.today_high = None,
               !.today_low = None,
               !.today_high_time = None,
               !.today_low_time = None,
               !.last_alert_price = None,
               !.daily_max_change_events = << >>,
               !.liquidation_alerts = << >>,
               !.price_history = << >>]

AfterRollover(st, date) == IF IsNewDay(st, date) THEN ResetForNewDay(st) ELSE st

\* Variant: the aborted cycle writes the rolled-over locals back.
AbortedCycle_SavesReset(f, t) ==
    save_state(f, AfterRollover(load_state(f), BeijingDate(t)))

\* What the cycle leaves on disk when the price fetch is unavailable.
AbortedCycle(f, t) == f

\* price_history after the append and the pruning.
UpdateHistory(ph, t, p) ==
    SelectSeqBy(Append(ph, [timestamp |-> t, price |-> p, time |-> BeijingTimeStr(t)]),
                t - (RAPID_CHANGE_TIME_WINDOW + HISTORY_MARGIN), TRUE)

\* Variant: the window is the whole retained history.
WindowPrices_Whole(ph, t) == ph

WindowPrices(ph, t) == SelectSeqBy(ph, t - RAPID_CHANGE_TIME_WINDOW, FALSE)

\* The rapid-change condition on the pruned history.
RapidCondition(ph, t, p) ==
    /\ Len(ph) >= 2
    /\ Len(WindowPrices(ph, t)) >= 2
    /\ LET oldest == WindowPrices(ph, t)[1].price
       IN Abs(p - oldest) * 100 >= RAPID_CHANGE_THRESHOLD * oldest

\* Variant: no dedup gate.
KeyFree_NoGate(alerts, kind, t) == TRUE

\* Gate of one alert kind by its per-minute key.
KeyFree(alerts, kind, t) == <<kind, BeijingTimeStr(t)>> \notin AlertKeys(alerts)

AlertRecord(kind, t, magnitude) ==
    [key |-> <<kind, BeijingTimeStr(t)>>,
     type |-> kind,
     time |-> <<BeijingDate(t), BeijingTimeStr(t)>>,
     magnitude |-> magnitude]

\* Variant: the high follows every sample.
UpdateHigh_Overwrite(st, t, p) ==
    [st EXCEPT !.today_high = p, !.today_high_time = BeijingTimeStr(t)]

\* Update of today's high and low.
UpdateHigh(st, t, p) ==
    IF st.today_high = None \/ p > st.today_high
    THEN [st EXCEPT !.today_high = p, !.today_high_time = BeijingTimeStr(t)]
    ELSE st

UpdateLow(st, t, p) ==
    IF st.today_low = None \/ p < st.today_low
    THEN [st EXCEPT !.today_low = p, !.today_low_time = BeijingTimeStr(t)]
    ELSE st

\* Variant: the recorder never finds an existing event.
EventExists_Never(events, high, low) == FALSE

\* event_exists of the range-event recorder.
EventExists(events, high, low) ==
    \E i \in 1..Len(events) :
        \/ (events[i].type = "high" /\ events[i].price = high)
        \/ (events[i].type = "low" /\ events[i].price = low)

\* daily_max_change_events after the range check of the cycle.
RecordRangeEvent(st, t, p) ==
    LET high == st.today_high
        low == st.today_low
        events == st.daily_max_change_events
        date == BeijingDate(t)
    IN IF high # None /\ low # None /\ high - low >= DAILY_MAX_CHANGE_THRESHOLD
          /\ ~EventExists(events, high, low)
       THEN IF p = high
            THEN Append(events, [type |-> "high", price |-> high,
                                 time |-> <<date, st.today_high_time>>,
                                 change |-> high - low])
            ELSE IF p = low
            THEN Append(events, [type |-> "low", price |-> low,
                                 time |-> <<date, st.today_low_time>>,
                                 change |-> high - low])
            ELSE events
       ELSE events

\* Variant: the first sample after a reset always alerts.
PriceDecision_NewDayAlways(lap, last_price, p) ==
    IF lap # None
    THEN [should |-> Abs(p - lap) >= PRICE_CHANGE_THRESHOLD, lap |-> lap]
    ELSE IF last_price = None
    THEN [should |-> FALSE, lap |-> p]
    ELSE [should |-> TRUE, lap |-> last_price]

\* Variant: the cold start forgets to set the baseline.
PriceDecision_ColdNoBaseline(lap, last_price, p) ==
    IF lap # None
    THEN [should |-> Abs(p - lap) >= PRICE_CHANGE_THRESHOLD, lap |-> lap]
    ELSE IF last_price = None
    THEN [should |-> FALSE, lap |-> None]
    ELSE IF Abs(p - last_price) >= PRICE_CHANGE_THRESHOLD
    THEN [should |-> TRUE, lap |-> last_price]
    ELSE [should |-> FALSE, lap |-> p]

\* Variant: without a baseline the sample is never compared with last_price.
PriceDecision_BaselineOnly(lap, last_price, p) ==
    IF lap # None
    THEN [should |-> Abs(p - lap) >= PRICE_CHANGE_THRESHOLD, lap |-> lap]
    ELSE [should |-> FALSE, lap |-> p]

\* Variant: the no-cross fallback takes last_price for the baseline.
PriceDecision_FallbackPrior(lap, last_price, p) ==
    IF lap # None
    THEN [should |-> Abs(p - lap) >= PRICE_CHANGE_THRESHOLD, lap |-> lap]
    ELSE IF last_price = None
    THEN [should |-> FALSE, lap |-> p]
    ELSE IF Abs(p - last_price) >= PRICE_CHANGE_THRESHOLD
    THEN [should |-> TRUE, lap |-> last_price]
    ELSE [should |-> FALSE, lap |-> last_price]

\* The price-alert decision: should_alert and the baseline before the send.
PriceDecision(lap, last_price, p) ==
    IF lap # None
    THEN [should |-> Abs(p - lap) >= PRICE_CHANGE_THRESHOLD, lap |-> lap]
    ELSE IF last_price = None
    THEN [should |-> FALSE, lap |-> p]
    ELSE IF Abs(p - last_price) >= PRICE_CHANGE_THRESHOLD
    THEN [should |-> TRUE, lap |-> last_price]
    ELSE [should |-> FALSE, lap |-> p]

\* Variant: a delivered alert does not rebase.
BaselineAfterSend_NoRebase(d, p, success) == d.lap

\* Variant: the rebase ignores the send result.
BaselineAfterSend_IgnoreResult(d, p, success) == IF d.should THEN p ELSE d.lap

\* last_alert_price after the send of the price alert.
BaselineAfterSend(d, p, success) == IF d.should /\ success THEN p ELSE d.lap

\* Variant: one reading is enough to run the futures detector.
FuturesAvailable_Either(oi, fr) == oi # None \/ fr # None

\* The futures detector runs only with both readings.
FuturesAvailable(oi, fr) == oi # None /\ fr # None

OpenInterestCondition(last_oi, oi) ==
    /\ last_oi # None
    /\ last_oi > 0
    /\ Abs(oi - last_oi) * 100 >= OPEN_INTEREST_CHANGE_THRESHOLD * last_oi

\* Variant: only the upper band is checked.
FundingRateCondition_HighOnly(fr) == fr >= FUNDING_RATE_HIGH_THRESHOLD

FundingRateCondition(fr) ==
    fr >= FUNDING_RATE_HIGH_THRESHOLD \/ fr <= FUNDING_RATE_LOW_THRESHOLD

\* Variant: a delivered alert's record replaces the list.
AppendIfSent_Replace(alerts, tried, success, rec) ==
    IF tried /\ success THEN <<rec>> ELSE alerts

\* Variant: the record is appended whatever the send returned.
AppendIfSent_Always(alerts, tried, success, rec) ==
    IF tried THEN Append(alerts, rec) ELSE alerts

\* liquidation_alerts after one attempted send: appended on success only.
AppendIfSent(alerts, tried, success, rec) ==
    IF tried /\ success THEN Append(alerts, rec) ELSE alerts

\* Variant: the saved reading is this cycle's fetch result, even when absent.
SavedReading_Always(reading, previous) == reading

\* Variant: the saved value is the loaded one.
SavedReading_Keep(reading, previous) == previous

\* last_open_interest / last_funding_rate handed to save_state.
SavedReading(reading, previous) == IF reading # None THEN reading ELSE previous

\* One complete cycle with a fetched price p at time t, futures readings oi
\* and fr (None when unavailable) and send results ok[kind].  Returns the
\* state handed to save_state, the kinds attempted and the kinds delivered.
RunCycle(st0, t, p, oi, fr, ok) ==
    LET date == BeijingDate(t)
        s1 == AfterRollover(st0, date)
        ph == UpdateHistory(s1.price_history, t, p)
        rapidTry == RapidCondition(ph, t, p) /\ KeyFree(s1.liquidation_alerts, "rapid", t)
        al1 == IF rapidTry
               THEN AppendIfSent(s1.liquidation_alerts, rapidTry, ok["rapid"],
                        AlertRecord("rapid", t, PercentChange(p, WindowPrices(ph, t)[1].price)))
               ELSE s1.liquidation_alerts
        s2 == UpdateLow(UpdateHigh(s1, t, p), t, p)
        events == RecordRangeEvent(s2, t, p)
        d == PriceDecision(s1.last_alert_price, s1.last_price, p)
        lap == BaselineAfterSend(d, p, ok["price"])
        fut == FuturesAvailable(oi, fr)
        oiTry == fut /\ OpenInterestCondition(s1.last_open_interest, oi)
                     /\ KeyFree(al1, "oi", t)
        al2 == IF oiTry
               THEN AppendIfSent(al1, oiTry, ok["oi"],
                        AlertRecord("oi", t, PercentChange(oi, s1.last_open_interest)))
               ELSE al1
        frTry == fut /\ FundingRateCondition(fr) /\ KeyFree(al2, "fr", t)
        al3 == AppendIfSent(al2, frTry, ok["fr"], AlertRecord("fr", t, fr))
        attempted == {k \in Kinds : \/ (k = "rapid" /\ rapidTry)
                                    \/ (k = "price" /\ d.should)
                                    \/ (k = "oi" /\ oiTry)
                                    \/ (k = "fr" /\ frTry)}
    IN [state |-> [last_price |-> p,
                   last_check_date |-> date,
                   today_high |-> s2.today_high,
                   today_low |-> s2.today_low,
                   today_high_time |-> s2.today_high_time,
                   today_low_time |-> s2.today_low_time,
                   last_alert_price |-> lap,
                   daily_max_change_events |-> events,
                   last_open_interest |-> SavedReading(oi, s1.last_open_interest),
                   last_funding_rate |-> SavedReading(fr, s1.last_funding_rate),
                   liquidation_alerts |-> al3,
                   price_history |-> ph],
        attempted |-> attempted,
        sent |-> {k \in attempted : ok[k]}]

\* ------------------------------------------------------------------------
\* State machine
\* ------------------------------------------------------------------------
VARIABLES
    file,       \* the state file: [kind, data]
    now,        \* time of the most recent invocation (epoch seconds)
    cycles,     \* invocations so far
    last,       \* observation of the most recent invocation
    seen,       \* prices of completed cycles since the most recent rollover
    delivered,  \* <<kind, date, minute>> of every delivered dedup-gated alert
    repeated,   \* the triples delivered more than once
    proc,       \* the running invocation: [pc, loaded, state]
    inst        \* two instances started without mutual exclusion

vars == <<file, now, cycles, last, seen, delivered, repeated, proc, inst>>

\* No invocation is between its decisions and the end of save_state.
Idle == [pc |-> "idle", loaded |-> DefaultState, state |-> DefaultState]

Instances == {1, 2}
Other(i) == 3 - i

\* An instance that has not run: its invocation, what it delivered, whether
\* it loaded while the other instance had loaded and not begun to save, and
\* whether its save_state was the most recent to finish.
IdleInstance ==
    [pc |-> "idle", loaded |-> DefaultState, state |-> DefaultState,
     sent |-> {}, overlapped |-> FALSE, latest |-> FALSE]

\* The undelivered price-alert condition after a completed cycle: the price
\* whose alert was attempted and not delivered, while the price is unchanged.
PendingAfter(pending, p, attempted, sent) ==
    IF "price" \in sent THEN None
    ELSE IF "price" \in attempted THEN p
    ELSE IF pending = p THEN pending
    ELSE None

NoCycle ==
    [outcome |-> "none", price |-> None, oi |-> None, fr |-> None,
     new_day |-> FALSE, loaded_kind |-> "none",
     pre_alert_price |-> None, pre_last_price |-> None, pre_open_interest |-> None,
     pre_funding_rate |-> None, pre_alerts |-> << >>,
     pending_before |-> None, pending |-> None,
     prev_saved_date |-> None, saved_date |-> None,
     attempted |-> {}, sent |-> {}]

Init ==
    /\ file \in {[kind |-> "missing", data |-> DefaultState],
                 [kind |-> "corrupt", data |-> DefaultState]}
    /\ now = StartTime
    /\ cycles = 0
    /\ last = NoCycle
    /\ seen = {}
    /\ delivered = {}
    /\ repeated = {}
    /\ proc = Idle
    /\ inst = [i \in Instances |-> IdleInstance]

\* An invocation whose price fetch is unavailable: returns before any effect.
CycleNoPrice(A) ==
    /\ cycles < MaxCycles
    /\ proc.pc = "idle"
    /\ \E dt \in A :
         LET t == now + dt
             st0 == load_state(file)
         IN /\ now' = t
            /\ file' = AbortedCycle(file, t)
            /\ last' = [outcome |-> "aborted", price |-> None, oi |-> None, fr |-> None,
                        new_day |-> IsNewDay(st0, BeijingDate(t)),
                        loaded_kind |-> file.kind,
                        pre_alert_price |-> st0.last_alert_price,
                        pre_last_price |-> st0.last_price,
                        pre_open_interest |-> st0.last_open_interest,
                        pre_funding_rate |-> st0.last_funding_rate,
                        pre_alerts |-> st0.liquidation_alerts,
                        pending_before |-> last.pending, pending |-> last.pending,
                        prev_saved_date |-> last.saved_date,
                        saved_date |-> last.saved_date,
                        attempted |-> {}, sent |-> {}]
    /\ cycles' = cycles + 1
    /\ UNCHANGED <<seen, delivered, repeated, proc, inst>>

\* A complete invocation: load, decide, notify, save.  P, FUT and A are the
\* prices, futures readings and time advances the environment may produce.
CycleComplete(P, FUT, A) ==
    /\ cycles < MaxCycles
    /\ proc.pc = "idle"
    /\ \E dt \in A, p \in P, reading \in FUT :
       \* send_wechat_message may fail for any of the alerts that are attempted
       \E failed \in SUBSET RunCycle(load_state(file), now + dt, p, reading[1],
                                     reading[2], [k \in Kinds |-> TRUE]).attempted :
         LET t == now + dt
             oi == reading[1]
             fr == reading[2]
             st0 == load_state(file)
             ok == [k \in Kinds |-> k \notin failed]
             r == RunCycle(st0, t, p, oi, fr, ok)
             new_day == IsNewDay(st0, BeijingDate(t))
             gated == {<<k, BeijingDate(t), BeijingTimeStr(t)>> : k \in r.sent \ {"price"}}
         IN /\ failed \subseteq r.attempted
            /\ now' = t
            /\ file' = save_state(file, r.state)
            /\ last' = [outcome |-> "saved", price |-> p, oi |-> oi, fr |-> fr,
                        new_day |-> new_day,
                        loaded_kind |-> file.kind,
                        pre_alert_price |-> st0.last_alert_price,
                        pre_last_price |-> st0.last_price,
                        pre_open_interest |-> st0.last_open_interest,
                        pre_funding_rate |-> st0.last_funding_rate,
                        pre_alerts |-> st0.liquidation_alerts,
                        pending_before |-> last.pending,
                        pending |-> PendingAfter(last.pending, p, r.attempted, r.sent),
                        prev_saved_date |-> last.saved_date,
                        saved_date |-> BeijingDate(t),
                        attempted |-> r.attempted, sent |-> r.sent]
            /\ seen' = (IF new_day THEN {} ELSE seen) \cup {p}
            /\ delivered' = delivered \cup gated
            /\ repeated' = repeated \cup (delivered \cap gated)
    /\ cycles' = cycles + 1
    /\ UNCHANGED <<proc, inst>>

\* The price engine, with the futures data source unavailable.
Next ==
    \/ CycleNoPrice(Advances)
    \/ CycleComplete(Prices, NoFutures, Advances)

Spec == Init /\ [][Next]_vars

\* The whole engine with futures readings, over fewer prices.
NextFutures ==
    \/ CycleNoPrice(FewAdvances)
    \/ CycleComplete(FewPrices, Futures, FewAdvances)

SpecFutures == Init /\ [][NextFutures]_vars

\* The price engine over prices less than a threshold apart and advances
\* that put samples just inside and just outside the rapid-change window.
NextFine ==
    \/ CycleNoPrice(FineAdvances)
    \/ CycleComplete(FinePrices, NoFutures, FineAdvances)

SpecFine == Init /\ [][NextFine]_vars

\* Both engines over advances that cross midnight with the earlier samples
\* still inside the retained history.
NextRoll ==
    \/ CycleNoPrice(RollAdvances)
    \/ CycleComplete(FewPrices, RollFutures, RollAdvances)

SpecRoll == Init /\ [][NextRoll]_vars

\* The futures engine over readings at and around its thresholds: a zero
\* reading, swings of exactly 10 percent and less, rates on both bands.
NextRule ==
    \/ CycleNoPrice(FewAdvances)
    \/ CycleComplete(RulePrices, RuleFutures, FewAdvances)

SpecRule == Init /\ [][NextRule]_vars

\* The invocation up to the call of save_state: load, decide, notify.
CycleDecide(P, FUT, A) ==
    /\ cycles < MaxCycles
    /\ proc.pc = "idle"
    /\ \E dt \in A, p \in P, reading \in FUT :
       \* send_wechat_message may fail for any of the alerts that are attempted
       \E failed \in SUBSET RunCycle(load_state(file), now + dt, p, reading[1],
                                     reading[2], [k \in Kinds |-> TRUE]).attempted :
         LET t == now + dt
             oi == reading[1]
             fr == reading[2]
             st0 == load_state(file)
             ok == [k \in Kinds |-> k \notin failed]
             r == RunCycle(st0, t, p, oi, fr, ok)
             gated == {<<k, BeijingDate(t), BeijingTimeStr(t)>> : k \in r.sent \ {"price"}}
         IN /\ failed \subseteq r.attempted
            /\ now' = t
            /\ proc' = [pc |-> "open", loaded |-> st0, state |-> r.state]
            /\ last' = [outcome |-> "saving", price |-> p, oi |-> oi, fr |-> fr,
                        new_day |-> IsNewDay(st0, BeijingDate(t)),
                        loaded_kind |-> file.kind,
                        pre_alert_price |-> st0.last_alert_price,
                        pre_last_price |-> st0.last_price,
                        pre_open_interest |-> st0.last_open_interest,
                        pre_funding_rate |-> st0.last_funding_rate,
                        pre_alerts |-> st0.liquidation_alerts,
                        pending_before |-> last.pending,
                        pending |-> PendingAfter(last.pending, p, r.attempted, r.sent),
                        prev_saved_date |-> last.saved_date,
                        saved_date |-> last.saved_date,
                        attempted |-> r.attempted, sent |-> r.sent]
            /\ delivered' = delivered \cup gated
            /\ repeated' = repeated \cup (delivered \cap gated)
    /\ cycles' = cycles + 1
    /\ UNCHANGED <<file, seen, inst>>

\* save_state: open(STATE_FILE, 'w') truncates the file.
SaveOpen ==
    /\ proc.pc = "open"
    /\ file' = [kind |-> "corrupt", data |-> DefaultState]
    /\ proc' = [proc EXCEPT !.pc = "dump"]
    /\ UNCHANGED <<now, cycles, last, seen, delivered, repeated, inst>>

\* save_state: json.dump has written the whole object and the file is closed.
SaveDump ==
    /\ proc.pc = "dump"
    /\ file' = save_state(file, proc.state)
    /\ proc' = [proc EXCEPT !.pc = "idle"]
    /\ last' = [last EXCEPT !.outcome = "saved", !.saved_date = BeijingDate(now)]
    /\ seen' = (IF last.new_day THEN {} ELSE seen) \cup {last.price}
    /\ UNCHANGED <<now, cycles, delivered, repeated, inst>>

\* save_state: open or json.dump raises; the exception is logged and dropped.
SaveError ==
    /\ proc.pc \in {"open", "dump"}
    /\ proc' = [proc EXCEPT !.pc = "idle"]
    /\ last' = [last EXCEPT !.outcome = "save_failed"]
    /\ UNCHANGED <<file, now, cycles, seen, delivered, repeated, inst>>

\* The process is killed inside save_state.
Kill ==
    /\ proc.pc \in {"open", "dump"}
    /\ proc' = [proc EXCEPT !.pc = "idle"]
    /\ last' = [last EXCEPT !.outcome = "killed"]
    /\ UNCHANGED <<file, now, cycles, seen, delivered, repeated, inst>>

\* The price engine with save_state in its steps, failures and kills.
NextKill ==
    \/ CycleNoPrice(FewAdvances)
    \/ CycleDecide(FewPrices, NoFutures, FewAdvances)
    \/ SaveOpen
    \/ SaveDump
    \/ SaveError
    \/ Kill

SpecKill == Init /\ [][NextKill]_vars

\* The number of list entries of a state: states with fewer entries are
\* shorter as json.dump writes them.
Entries(st) ==
    Len(st.daily_max_change_events) + Len(st.liquidation_alerts) + Len(st.price_history)

\* The file after an instance has written st from offset 0 through the handle
\* it opened: over content the other instance wrote since that open, the
\* tail of longer content stays behind the new text and the file does not
\* parse.
WrittenInPlace(f, st) ==
    IF f.kind = "json" /\ Entries(st) < Entries(f.data)
    THEN [kind |-> "corrupt", data |-> DefaultState]
    ELSE save_state(f, st)

\* Instance i runs an invocation up to the call of save_state.
Invoke(i, P, A) ==
    /\ cycles < MaxCycles
    /\ inst[i].pc \in {"idle", "done"}
    /\ \E dt \in A, p \in P :
       \E failed \in SUBSET RunCycle(load_state(file), now + dt, p, None, None,
                                     [k \in Kinds |-> TRUE]).attempted :
         LET t == now + dt
             st0 == load_state(file)
             ok == [k \in Kinds |-> k \notin failed]
             r == RunCycle(st0, t, p, None, None, ok)
             gated == {<<k, BeijingDate(t), BeijingTimeStr(t)>> : k \in r.sent \ {"price"}}
             both == inst[Other(i)].pc = "open"
         IN /\ failed \subseteq r.attempted
            /\ now' = t
            /\ inst' = [k \in Instances |->
                          IF k = i
                          THEN [pc |-> "open", loaded |-> st0, state |-> r.state,
                                sent |-> r.sent, overlapped |-> both, latest |-> FALSE]
                          ELSE [inst[k] EXCEPT !.overlapped = @ \/ both]]
            /\ delivered' = delivered \cup gated
            /\ repeated' = repeated \cup (delivered \cap gated)
    /\ cycles' = cycles + 1
    /\ UNCHANGED <<file, last, seen, proc>>

\* save_state of instance i: open(STATE_FILE, 'w') truncates the file.
OpenFile(i) ==
    /\ inst[i].pc = "open"
    /\ file' = [kind |-> "corrupt", data |-> DefaultState]
    /\ inst' = [inst EXCEPT ![i].pc = "dump"]
    /\ UNCHANGED <<now, cycles, last, seen, delivered, repeated, proc>>

\* save_state of instance i: the dumped text is written and the file closed.
Dump(i) ==
    /\ inst[i].pc = "dump"
    /\ file' = WrittenInPlace(file, inst[i].state)
    /\ inst' = [k \in Instances |->
                  IF k = i THEN [inst[k] EXCEPT !.pc = "done", !.latest = TRUE]
                  ELSE [inst[k] EXCEPT !.latest = FALSE]]
    /\ UNCHANGED <<now, cycles, last, seen, delivered, repeated, proc>>

\* Two instances of the price engine with no lock between them, started
\* within the time an invocation's fetches and sends can take.
NextOverlap ==
    \E i \in Instances :
        \/ Invoke(i, FewPrices, OverlapAdvances)
        \/ OpenFile(i)
        \/ Dump(i)

SpecOverlap == Init /\ [][NextOverlap]_vars

\* ------------------------------------------------------------------------
\* Properties
\* ------------------------------------------------------------------------
Saved == last.outcome = "saved"
Today == BeijingDate(now)
Minute == BeijingTimeStr(now)
Disk == file.data
HasEvent(type, price) ==
    \E i \in 1..Len(Disk.daily_max_change_events) :
        /\ Disk.daily_max_change_events[i].type = type
        /\ Disk.daily_max_change_events[i].price = price
HasKey(kind) == <<kind, Minute>> \in AlertKeys(Disk.liquidation_alerts)

\* C1: once a cycle has been saved, the persisted today_high is the maximum
\* and today_low the minimum of the prices of the completed cycles since the
\* most recent rollover, hence today_high >= today_low.
C1_DailyExtremes ==
    file.kind = "json" =>
        /\ Disk.today_high \in seen
        /\ Disk.today_low \in seen
        /\ \A q \in seen : Disk.today_low <= q /\ q <= Disk.today_high
        /\ Disk.today_high >= Disk.today_low

\* A third sample of the day that lies strictly between the extremes.
C1_Witness ==
    /\ Saved
    /\ Cardinality(seen) >= 3
    /\ Disk.today_low < last.price
    /\ last.price < Disk.today_high

\* The cycle found a baseline (no rollover) and the sample crossed it.
CrossedBaseline ==
    /\ Saved
    /\ ~last.new_day
    /\ last.pre_alert_price # None
    /\ Abs(last.price - last.pre_alert_price) >= PRICE_CHANGE_THRESHOLD

\* C2: with a baseline, a sample at least PRICE_CHANGE_THRESHOLD away from it
\* is alerted, and when the alert is delivered the persisted baseline is the
\* sample.
C2_RebaseOnSuccess ==
    CrossedBaseline =>
        /\ "price" \in last.attempted
        /\ ("price" \in last.sent => Disk.last_alert_price = last.price)

\* Baseline 60000, sample 60550, alert delivered.
C2_Witness ==
    /\ CrossedBaseline
    /\ last.pre_alert_price = 60000
    /\ last.price = 60550
    /\ "price" \in last.sent
    /\ Disk.last_alert_price = 60550

FailedPriceAlert == CrossedBaseline /\ "price" \notin last.sent

\* C3: when the send of a crossed-baseline alert fails, the persisted
\* baseline is the one the cycle loaded, and the next completed cycle of the
\* same day with the same price attempts the price alert again.
C3_FailureKeepsBaseline ==
    [][/\ FailedPriceAlert' => Disk'.last_alert_price = last'.pre_alert_price
       /\ (FailedPriceAlert /\ Saved' /\ ~last'.new_day /\ last'.price = last.price)
              => "price" \in last'.attempted]_vars

\* A retry: the cycle loaded the price it sampled again together with a
\* baseline that price had crossed, and attempted the alert.
C3_Witness ==
    /\ CrossedBaseline
    /\ last.pre_last_price = last.price
    /\ "price" \in last.attempted
    /\ cycles = 3

\* C4: a cycle that loads last_alert_price equal to its sample (and, when it
\* rolls the day over, last_price equal to it too) sends no price alert.
C4_Quiescence ==
    (/\ Saved
     /\ last.pre_alert_price = last.price
     /\ (last.new_day => last.pre_last_price = last.price))
        => /\ "price" \notin last.attempted
           /\ "price" \notin last.sent

\* The same price again on the first cycle of a new day.
C4_Witness ==
    /\ Saved
    /\ last.new_day
    /\ last.pre_alert_price = last.price
    /\ last.pre_last_price = last.price

\* C5: a first cycle that finds the state file missing or unparsable sends
\* no price alert and persists last_alert_price, today_high, today_low and
\* last_price equal to the sample.
C5_ColdStart ==
    (Saved /\ last.loaded_kind \in {"missing", "corrupt"}) =>
        /\ "price" \notin last.attempted
        /\ Disk.last_alert_price = last.price
        /\ Disk.today_high = last.price
        /\ Disk.today_low = last.price
        /\ Disk.last_price = last.price

\* A cold start on an unparsable file, after an aborted first invocation.
C5_Witness ==
    /\ Saved
    /\ last.loaded_kind = "corrupt"
    /\ cycles = 2
    /\ Disk.last_alert_price = 60000

\* C6 (as claimed): after a cycle with today_high - today_low >=
\* DAILY_MAX_CHANGE_THRESHOLD whose sample equals today_high (today_low),
\* daily_max_change_events holds an event of that type and price.
C6_RangeEventRecorded ==
    (Saved /\ Disk.today_high - Disk.today_low >= DAILY_MAX_CHANGE_THRESHOLD) =>
        /\ (last.price = Disk.today_high => HasEvent("high", last.price))
        /\ (last.price = Disk.today_low => HasEvent("low", last.price))

\* C7: daily_max_change_events never holds two entries with the same type
\* and price.
C7_NoDuplicateEvents ==
    \A i, j \in 1..Len(Disk.daily_max_change_events) :
        (/\ Disk.daily_max_change_events[i].type = Disk.daily_max_change_events[j].type
         /\ Disk.daily_max_change_events[i].price = Disk.daily_max_change_events[j].price)
            => i = j

\* A sample that touches again the high an event was recorded for.
C7_Witness ==
    /\ Saved
    /\ ~last.new_day
    /\ last.pre_last_price = last.price
    /\ last.price = Disk.today_high
    /\ HasEvent("high", last.price)

\* C8: no dedup-gated alert kind is delivered twice for one (day, minute),
\* and a kind whose condition holds is held back only by a record of its own
\* kind for that minute.
C8_PerMinuteDedup ==
    /\ repeated = {}
    /\ Saved =>
        /\ (RapidCondition(Disk.price_history, now, last.price)
               => "rapid" \in last.attempted \/ HasKey("rapid"))
        /\ (FuturesAvailable(last.oi, last.fr)
              /\ OpenInterestCondition(last.pre_open_interest, last.oi)
               => "oi" \in last.attempted \/ HasKey("oi"))
        /\ (FuturesAvailable(last.oi, last.fr) /\ FundingRateCondition(last.fr)
               => "fr" \in last.attempted \/ HasKey("fr"))

\* A qualifying rapid change held back by this minute's rapid record while
\* the open-interest alert of the same cycle is delivered.
C8_Witness ==
    /\ Saved
    /\ RapidCondition(Disk.price_history, now, last.price)
    /\ "rapid" \notin last.attempted
    /\ <<"rapid", Today, Minute>> \in delivered
    /\ "oi" \in last.sent

\* C9: an invocation whose price fetch is unavailable leaves the state file
\* as it was and sends nothing.
C9_AbortLeavesState ==
    [][last'.outcome = "aborted" => (file' = file /\ last'.sent = {})]_vars

\* An aborted invocation on a new day: the file still holds yesterday's data.
C9_Witness ==
    /\ last.outcome = "aborted"
    /\ last.new_day
    /\ file.kind = "json"
    /\ Disk.last_check_date # Today
    /\ Disk.today_high # None

\* C10 (as claimed): with one futures reading unavailable the sub-check of
\* the other reading still runs.
C10_IndependentDegrade ==
    Saved =>
        /\ (last.oi = None /\ last.fr # None /\ FundingRateCondition(last.fr)
               => "fr" \in last.attempted \/ HasKey("fr"))
        /\ (last.fr = None /\ last.oi # None
              /\ OpenInterestCondition(last.pre_open_interest, last.oi)
               => "oi" \in last.attempted \/ HasKey("oi"))

\* C10 (amended): with either futures reading unavailable neither sub-check
\* runs; with both readings both sub-checks run.
C10_JointDegrade ==
    Saved =>
        /\ (last.oi = None \/ last.fr = None)
               => ("oi" \notin last.attempted /\ "fr" \notin last.attempted)
        /\ (last.oi # None /\ last.fr # None) =>
              /\ (FundingRateCondition(last.fr)
                     => "fr" \in last.attempted \/ HasKey("fr"))
              /\ (OpenInterestCondition(last.pre_open_interest, last.oi)
                     => "oi" \in last.attempted \/ HasKey("oi"))

\* An out-of-band funding rate with open interest unavailable and no funding
\* record for the minute.
C10_Witness ==
    /\ Saved
    /\ last.oi = None
    /\ last.fr # None
    /\ FundingRateCondition(last.fr)
    /\ ~HasKey("fr")

\* The dedup-gated kinds.
GatedKinds == {"rapid", "oi", "fr"}

\* C11: every record of liquidation_alerts stands for a delivered alert of
\* its kind, day and minute, and a failed send leaves no record under its
\* key, which stays free.
C11_NoRecordWithoutDelivery ==
    /\ \A i \in 1..Len(Disk.liquidation_alerts) :
          LET a == Disk.liquidation_alerts[i]
          IN <<a.type, a.time[1], a.time[2]>> \in delivered
    /\ Saved => \A k \in (last.attempted \ last.sent) \cap GatedKinds : ~HasKey(k)

\* A failed funding-rate send next to a delivered open-interest alert.
C11_Witness ==
    /\ Saved
    /\ "fr" \in last.attempted \ last.sent
    /\ "oi" \in last.sent
    /\ ~HasKey("fr")
    /\ HasKey("oi")

\* The cycle sampled the price of an undelivered price-alert condition.
RetryCycle ==
    /\ Saved
    /\ last.pending_before # None
    /\ last.pending_before = last.price

\* C12: after a failed price alert, with the price unchanged, a completed
\* cycle whose send does not fail delivers the alert, day rollover or not.
C12_RetryAcrossRollover ==
    (RetryCycle /\ ("price" \in last.attempted => "price" \in last.sent))
        => "price" \in last.sent

\* The entries of the saved history inside the rapid-change window.
InWindow ==
    {i \in 1..Len(Disk.price_history) :
        Disk.price_history[i].timestamp >= now - RAPID_CHANGE_TIME_WINDOW}

\* C13: a rapid-change alert is attempted only with at least two history
\* entries inside the window and a change of at least RAPID_CHANGE_THRESHOLD
\* percent from the earliest of them to the current price.
C13_RapidDecision ==
    (Saved /\ "rapid" \in last.attempted) =>
        /\ Cardinality(InWindow) >= 2
        /\ \E e \in InWindow :
              /\ \A j \in InWindow :
                    Disk.price_history[e].timestamp <= Disk.price_history[j].timestamp
              /\ Abs(last.price - Disk.price_history[e].price) * 100
                    >= RAPID_CHANGE_THRESHOLD * Disk.price_history[e].price

\* History {t-65: 60000, t-30: 60500, t: 61300}: nothing is attempted.
C13_Witness ==
    /\ Saved
    /\ Len(Disk.price_history) = 3
    /\ Disk.price_history[1].timestamp = now - 65
    /\ Disk.price_history[1].price = 60000
    /\ Disk.price_history[2].timestamp = now - 30
    /\ Disk.price_history[2].price = 60500
    /\ last.price = 61300
    /\ "rapid" \notin last.attempted
    /\ ~HasKey("rapid")

IsPrefix(a, b) == Len(a) <= Len(b) /\ SubSeq(b, 1, Len(a)) = a

\* C14: an invocation on the date of the most recent completed cycle is not a
\* new day, and when it completes it has cleared none of the day's data.
C14_RolloverIdempotent ==
    [][(/\ cycles' # cycles
        /\ last'.prev_saved_date # None
        /\ last'.prev_saved_date = BeijingDate(now'))
          => /\ ~last'.new_day
             /\ Saved' =>
                 /\ Disk'.today_high >= Disk.today_high
                 /\ Disk'.today_low <= Disk.today_low
                 /\ Disk'.today_low # None
                 /\ Disk'.last_alert_price # None
                 /\ IsPrefix(Disk.daily_max_change_events, Disk'.daily_max_change_events)
                 /\ IsPrefix(Disk.liquidation_alerts, Disk'.liquidation_alerts)
                 /\ \A i \in 1..Len(Disk.price_history) :
                       Disk.price_history[i].timestamp
                           > now' - (RAPID_CHANGE_TIME_WINDOW + HISTORY_MARGIN)
                         => \E j \in 1..Len(Disk'.price_history) :
                               Disk'.price_history[j] = Disk.price_history[i]]_vars

\* A third completed cycle of a day that still holds the day's event, dedup
\* record and earlier samples.
C14_Witness ==
    /\ Saved
    /\ last.prev_saved_date = Today
    /\ Len(Disk.daily_max_change_events) >= 1
    /\ Len(Disk.liquidation_alerts) >= 1
    /\ Len(Disk.price_history) = 3

\* C15 (as claimed): after a kill inside save_state, a load yields the state
\* the invocation loaded or the state it was saving.
C15_NoPartialFile ==
    last.outcome = "killed" =>
        (load_state(file) = proc.loaded \/ load_state(file) = proc.state)

\* The baseline and the prior price the decision of the cycle sees.
BaselineSeen == IF last.new_day THEN None ELSE last.pre_alert_price
NoBaselineCross ==
    /\ BaselineSeen = None
    /\ last.pre_last_price # None
    /\ Abs(last.price - last.pre_last_price) >= PRICE_CHANGE_THRESHOLD

\* C16: a price alert is attempted exactly when a baseline exists and the
\* sample is at least PRICE_CHANGE_THRESHOLD from it, or no baseline exists,
\* a prior price does and the sample is at least that far from it.
C16_DecisionRule ==
    Saved =>
        ("price" \in last.attempted <=>
            \/ (/\ BaselineSeen # None
                /\ Abs(last.price - BaselineSeen) >= PRICE_CHANGE_THRESHOLD)
            \/ NoBaselineCross)

\* A first cycle of a new day that alerts on the move from last_price, the
\* cleared baseline being within the threshold of the sample.
C16_Witness ==
    /\ Saved
    /\ last.new_day
    /\ NoBaselineCross
    /\ Abs(last.price - last.pre_alert_price) < PRICE_CHANGE_THRESHOLD
    /\ "price" \in last.attempted

\* C17 (as claimed): with the baseline absent and the sample at least the
\* threshold from the prior price q, a delivered alert leaves baseline q.
C17_Rule3RebaseToPrior ==
    (Saved /\ NoBaselineCross /\ "price" \in last.sent)
        => Disk.last_alert_price = last.pre_last_price

\* C17 (amended): in that case the alert is attempted; delivered, it leaves
\* the current price as baseline; failed, it leaves the prior price q.
C17_Rule3Rebase ==
    (Saved /\ NoBaselineCross) =>
        /\ "price" \in last.attempted
        /\ Disk.last_alert_price =
              IF "price" \in last.sent THEN last.price ELSE last.pre_last_price

\* A delivered alert on the first cycle of a new day.
C17_Witness ==
    /\ Saved
    /\ NoBaselineCross
    /\ last.loaded_kind = "json"
    /\ "price" \in last.sent
    /\ Disk.last_alert_price = last.price

\* C18: every saved state has a baseline, and the cycle that finds no
\* baseline and a prior price within the threshold saves the sample as
\* baseline.
C18_BaselinePresent ==
    /\ file.kind = "json" => Disk.last_alert_price # None
    /\ (/\ Saved
        /\ BaselineSeen = None
        /\ last.pre_last_price # None
        /\ Abs(last.price - last.pre_last_price) < PRICE_CHANGE_THRESHOLD)
          => Disk.last_alert_price = last.price

\* The fallback with a sample different from the prior price.
C18_Witness ==
    /\ Saved
    /\ BaselineSeen = None
    /\ last.pre_last_price # None
    /\ last.pre_last_price # last.price
    /\ Abs(last.price - last.pre_last_price) < PRICE_CHANGE_THRESHOLD
    /\ Disk.last_alert_price = last.price

\* C19: a completed cycle that rolls the day over saves today_high =
\* today_low = the sample, a history of the current entry alone, no range
\* event, and only dedup records of alerts it delivered itself.
C19_RolloverReset ==
    (Saved /\ last.new_day) =>
        /\ Disk.today_high = last.price
        /\ Disk.today_low = last.price
        /\ Disk.today_high_time = Minute
        /\ Disk.today_low_time = Minute
        /\ Disk.price_history =
              <<[timestamp |-> now, price |-> last.price, time |-> Minute]>>
        /\ Disk.daily_max_change_events = << >>
        /\ \A i \in 1..Len(Disk.liquidation_alerts) :
              /\ Disk.liquidation_alerts[i].time = <<Today, Minute>>
              /\ Disk.liquidation_alerts[i].type \in last.sent

\* A rollover over a file with yesterday's records and a sample young enough
\* to be retained, with a delivery of its own.
C19_Witness ==
    /\ Saved
    /\ last.new_day
    /\ last.prev_saved_date # None
    /\ now - StartTime < RAPID_CHANGE_TIME_WINDOW + HISTORY_MARGIN
    /\ Len(last.pre_alerts) >= 1
    /\ last.pre_alert_price # None
    /\ Len(Disk.liquidation_alerts) = 1

RECURSIVE FuturesRecords(_)
\* The oi_/fr_ records of a dedup list, in order.
FuturesRecords(alerts) ==
    IF alerts = << >> THEN << >>
    ELSE IF Head(alerts).type \in {"oi", "fr"}
         THEN <<Head(alerts)>> \o FuturesRecords(Tail(alerts))
         ELSE FuturesRecords(Tail(alerts))

FuturesFetchFailed == Saved /\ (last.oi = None \/ last.fr = None)

\* C20 (as claimed): with a futures reading unavailable, last_open_interest,
\* last_funding_rate and the oi_/fr_ records are saved as they were loaded.
C20_FuturesStatePreserved ==
    FuturesFetchFailed =>
        /\ Disk.last_open_interest = last.pre_open_interest
        /\ Disk.last_funding_rate = last.pre_funding_rate
        /\ FuturesRecords(Disk.liquidation_alerts) = FuturesRecords(last.pre_alerts)

\* C20 (amended): with a futures reading unavailable, no oi_/fr_ record is
\* added (the loaded ones are kept unless the day rolls over, which clears
\* them), and each of last_open_interest and last_funding_rate keeps its
\* loaded value only when its own fetch failed; a fetched reading is saved.
C20_FuturesStatePerReading ==
    FuturesFetchFailed =>
        /\ Disk.last_open_interest =
              IF last.oi # None THEN last.oi ELSE last.pre_open_interest
        /\ Disk.last_funding_rate =
              IF last.fr # None THEN last.fr ELSE last.pre_funding_rate
        /\ FuturesRecords(Disk.liquidation_alerts) =
              IF last.new_day THEN << >> ELSE FuturesRecords(last.pre_alerts)

\* Open interest fetched, funding rate unavailable, with loaded readings and
\* a loaded futures record.
C20_Witness ==
    /\ FuturesFetchFailed
    /\ last.oi # None
    /\ last.pre_open_interest # None
    /\ last.pre_open_interest # last.oi
    /\ last.pre_funding_rate # None
    /\ ~last.new_day
    /\ Len(FuturesRecords(last.pre_alerts)) >= 1
    /\ Disk.last_open_interest = last.oi

BothFetched == Saved /\ last.oi # None /\ last.fr # None

\* C21: a completed cycle that fetched both futures readings saves them as
\* last_open_interest and last_funding_rate, whatever the alerts did.
C21_ReadingsSaved ==
    BothFetched =>
        /\ Disk.last_open_interest = last.oi
        /\ Disk.last_funding_rate = last.fr

\* An open-interest swing whose send failed: the new reading is saved.
C21_Witness ==
    /\ BothFetched
    /\ "oi" \in last.attempted \ last.sent
    /\ last.pre_open_interest # last.oi
    /\ Disk.last_open_interest = last.oi

\* No record of the kind for this minute was loaded, or the day rolled over.
KeyFreeBefore(kind) ==
    last.new_day \/ <<kind, Minute>> \notin AlertKeys(last.pre_alerts)

C23_WriteOnceAtEnd ==
    [][/\ file' # file => proc.pc \in {"open", "dump"}
       /\ (cycles' # cycles /\ last'.outcome = "aborted") => file' = file
       /\ (proc.pc = "open" /\ proc'.pc = "idle") =>
             /\ file' = file
             /\ load_state(file') = proc.loaded]_vars

\* An invocation killed on entering save_state, after it had computed a state
\* different from the one it loaded: the file still holds the loaded state.
C23_Witness ==
    /\ last.outcome = "killed"
    /\ file.kind = "json"
    /\ file.data = proc.loaded
    /\ proc.state # proc.loaded

\* C24: a completed cycle on the date of the saved state saves lists of
\* range events and dedup records that extend the saved ones, entry for
\* entry; only a cycle that rolls the day over saves lists that do not.
C24_AppendOnly ==
    [][(cycles' # cycles /\ Saved' /\ file.kind = "json") =>
          /\ Disk.last_check_date = BeijingDate(now') =>
                /\ IsPrefix(Disk.daily_max_change_events, Disk'.daily_max_change_events)
                /\ IsPrefix(Disk.liquidation_alerts, Disk'.liquidation_alerts)
          /\ (\/ ~IsPrefix(Disk.daily_max_change_events, Disk'.daily_max_change_events)
              \/ ~IsPrefix(Disk.liquidation_alerts, Disk'.liquidation_alerts))
                => last'.new_day]_vars

\* A same-day cycle that adds a dedup record to loaded ones, a range event
\* being on file.
C24_Witness ==
    /\ Saved
    /\ last.prev_saved_date = Today
    /\ Len(last.pre_alerts) >= 1
    /\ Len(Disk.liquidation_alerts) > Len(last.pre_alerts)
    /\ Len(Disk.daily_max_change_events) >= 1

\* C25: the first completed cycle of a new day decides the price alert on
\* the distance to the loaded last_price and the open-interest alert on the
\* swing from the loaded last_open_interest, and a reading it cannot fetch
\* keeps its loaded value through the rollover.
C25_RolloverKeepsLast ==
    (Saved /\ last.new_day /\ last.loaded_kind = "json") =>
        /\ last.pre_last_price # None
        /\ "price" \in last.attempted <=>
              Abs(last.price - last.pre_last_price) >= PRICE_CHANGE_THRESHOLD
        /\ BothFetched =>
              ("oi" \in last.attempted <=>
                  /\ last.pre_open_interest # None
                  /\ last.pre_open_interest > 0
                  /\ Abs(last.oi - last.pre_open_interest) * 100
                        >= OPEN_INTEREST_CHANGE_THRESHOLD * last.pre_open_interest)
        /\ last.oi = None => Disk.last_open_interest = last.pre_open_interest
        /\ last.fr = None => Disk.last_funding_rate = last.pre_funding_rate

\* A rollover cycle that alerts on yesterday's price and yesterday's reading.
C25_Witness ==
    /\ Saved
    /\ last.new_day
    /\ last.loaded_kind = "json"
    /\ "price" \in last.attempted
    /\ "oi" \in last.attempted
    /\ last.pre_open_interest # None

\* Both instances have finished invocations that each loaded before the
\* other began to save, and instance i finished its save_state last.
OverlapEndedBy(i) ==
    /\ inst[i].pc = "done"
    /\ inst[Other(i)].pc = "done"
    /\ inst[i].overlapped
    /\ inst[Other(i)].overlapped
    /\ inst[i].latest

\* C26: after two overlapping invocations the state file holds exactly the
\* state computed by the invocation that saved last.
C26_LastSaverWins ==
    \A i \in Instances :
        OverlapEndedBy(i) => file = [kind |-> "json", data |-> inst[i].state]

====
